---- MODULE Spec2Model ----
(***************************************************************************)
(* Model of amodatabase.py: the AMO crawl (AMODatabase.fetch_pages), the   *)
(* version-date crawl (AMODatabase.fetch_versions) and the directory-backed*)
(* cache (tinydb / Cache.put) they write to.                               *)
(*                                                                         *)
(* Strings that the code takes apart (guids, file names, URL paths) are    *)
(* sequences of tokens; a token is a piece of text the code's string       *)
(* operations treat as a unit (".json", "%41", "{", ...).                  *)
(*                                                                         *)
(* requests_toolbelt's Pool is modelled from its behaviour: from_urls /    *)
(* from_exceptions fill a FIFO job queue and start num_processes session   *)
(* threads; each thread takes jobs until the queue is empty, puts the      *)
(* response (any HTTP status) on the response queue or the raised          *)
(* RequestException on the exception queue; join_all joins every thread.   *)
(*                                                                         *)
(* A run is one process, as the __main__ block writes it: AMODatabase() is *)
(* constructed and one of fetch_pages / fetch_versions is called, on the   *)
(* cache directories as an earlier run left them.                          *)
(*                                                                         *)
(* The second half models the marshaller (fix_types / marshal over the     *)
(* three JSONSchema classes) on JSON values as tagged tuples, and the      *)
(* catalog pass (get_version_info, parse_file, main) that reads the two    *)
(* directories.  SpecMarshal runs marshal on its own, SpecCatalog runs     *)
(* main or one parse_file call.                                            *)
(***************************************************************************)
EXTENDS Integers, Sequences, FiniteSets, TLC

VARIABLES
    pc,                 \* position of the orchestrating (main) thread
    page_count,         \* AMODatabase._page_count
    amo_cache,          \* directory /tmp/amo_cache: file name -> file content
    amo_cache_dates,    \* directory /tmp/amo_cache_dates: file name -> content
    jobs,               \* Pool._job_queue: FIFO of job numbers
    inflight,           \* jobs whose request a session thread is executing
    exited,             \* number of session threads that have terminated
    nthreads,           \* number of session threads of the current pool
    respq,              \* Pool._response_queue, in completion order
    excq,               \* Pool._exc_queue, in completion order
    dispatched,         \* URL of every job of the current pool, by job number
    got,                \* transport log: completion of each job of the pool
    first,              \* transport log: completions of the initial round
    nreq,               \* transport log: requests received per URL
    server,             \* the catalogue the registry serves to fetch_pages
    putlog,             \* documents handed to Cache.put, oldest first
    todo,               \* main: the files of os.listdir not yet visited
    calls,              \* parse_file calls so far: argument and outcome
    schema,             \* marshal: the schema argument
    raw,                \* marshal: the json_data argument
    out                 \* marshal: what the calls so far returned

vars == <<pc, page_count, amo_cache, amo_cache_dates, jobs, inflight, exited,
          nthreads, respq, excq, dispatched, got, first, nreq, server, putlog,
          todo, calls, schema, raw, out>>

catvars == <<todo, calls, schema, raw, out>>

poolvars == <<jobs, inflight, exited, nthreads, respq, excq, dispatched, got>>

-----------------------------------------------------------------------------
(* Sizes *)

\* MAX_PROCESSES, the num_processes of every Pool.  The source sets 100;
\* the model runs the same pool with two session threads.
MAX_PROCESSES == 2

\* largest page_count the registry reports to AMODatabase.__init__
MaxPageCount == 3

\* most addon files on disk when a run starts
MaxPriorFiles == 2

\* most Cache.put calls in a run of the store on its own
MaxPuts == 4

-----------------------------------------------------------------------------
(* Strings *)

RECURSIVE SplitFirst(_, _)
\* s.split(tok)[0]: the part of s before the first occurrence of tok
SplitFirst(s, tok) ==
    IF s = <<>> \/ Head(s) = tok THEN <<>>
    ELSE <<Head(s)>> \o SplitFirst(Tail(s), tok)

\* os.path.join(fpath, "%s.json" % guid), relative to the store's directory
Fname(guid) == guid \o <<".json">>

\* fname.split(".json")[0]
FnameGuid(fname) == SplitFirst(fname, ".json")

\* requests' requote_uri on one token of the path: an escape of an
\* unreserved character is decoded, a character outside the safe set is
\* escaped
RequoteTok(t) ==
    CASE t = "%41" -> "A"
      [] t = "{"   -> "%7B"
      [] t = "}"   -> "%7D"
      [] OTHER     -> t

RequoteUri(path) == [i \in 1..Len(path) |-> RequoteTok(path[i])]

\* urllib.parse.unquote on one token
UnquoteTok(t) ==
    CASE t = "%41" -> "A"
      [] t = "%7B" -> "{"
      [] t = "%7D" -> "}"
      [] OTHER     -> t

Unquote(path) == [i \in 1..Len(path) |-> UnquoteTok(path[i])]

-----------------------------------------------------------------------------
(* tinydb / Cache *)

EmptyDir == [f \in {} |-> <<>>]

\* json.dumps(data) as written to the file
JsonDumps(data) == <<"json", data>>

\* json.loads of a file's content
JsonLoads(text) == text[2]

\* Faulty variant of CacheInit: the directory is kept as it was found
CacheInitKeep(dir) == dir

\* Cache.__init__: rmtree then mkdir leave an empty directory
CacheInit(dir) == EmptyDir

\* Faulty variant of CachePut: a file that exists is left as it is
CachePutNew(dir, data) == dir @@ (Fname(data.guid) :> JsonDumps(data))

\* Cache.put for a document that has a guid: open(fname, 'w') truncates
CachePut(dir, data) == (Fname(data.guid) :> JsonDumps(data)) @@ dir

-----------------------------------------------------------------------------
(* The registry, as the transport answers for it *)

\* an addon record of a results array
Rec(g, n) == [guid |-> g, weekly_downloads |-> n]

\* a record of a results array that has no guid field
NoGuid(n) == [weekly_downloads |-> n]

G(i) == <<"g", ToString(i)>>

H(i) == <<"h", ToString(i)>>

\* distinct: one addon per page; drift: consecutive pages list a common
\* addon; badrecord: a record without guid between two good ones
Catalogues == {"distinct", "drift", "badrecord"}

\* the results array of search page i
PageResults(cat, i) ==
    CASE cat = "distinct"  -> <<Rec(G(i), i)>>
      [] cat = "drift"     -> <<Rec(G(i), i), Rec(G(i + 1), i)>>
      [] cat = "badrecord" -> <<Rec(G(i), i), NoGuid(i), Rec(H(i), i)>>

\* "%s%s%s" % (DEFAULT_AMO_REQUEST_URI, QUERY_PARAMS, "&page=%d" % i)
PageUrl(i) == [kind |-> "search", path |-> <<>>, page |-> i]

\* ".../addons/addon/%s/versions/" % guid
VersionsUrl(guid) == [kind |-> "versions", path |-> guid, page |-> 0]

\* resp.url + "?page=%d" % page_count
LastPageUrl(url, n) == [kind |-> "versions", path |-> url.path, page |-> n]

\* the URL requests sends and echoes in resp.url
PreparedUrl(url) == [url EXCEPT !.path = RequoteUri(url.path)]

\* the created timestamp of the first file of the version listed last on
\* page n of the listing at path
Created(path, n) == [of |-> path, page |-> n]

VersionResults(path, n) == <<[files |-> <<[created |-> Created(path, n)]>>]>>

\* a body json.loads cannot decode
Garbage == [decodable |-> FALSE, json |-> [raw |-> "<html>"]]

\* a JSON body without results and page_count
NoKey == [decodable |-> TRUE, json |-> [detail |-> "throttled"]]

OkBody(n, results) ==
    [decodable |-> TRUE, json |-> [page_count |-> n, results |-> results]]

\* the page_count a version listing may report: one page, or more
ListingPageCounts == {1, 2}

\* the well-formed bodies the registry may send for a URL
OkBodies(cat, pages, url) ==
    IF url.kind = "search"
    THEN {OkBody(pages, PageResults(cat, url.page))}
    ELSE IF url.page = 0
    THEN {OkBody(n, VersionResults(url.path, 1)) : n \in ListingPageCounts}
    ELSE {OkBody(url.page, VersionResults(url.path, url.page))}

RaisedException == [exc |-> TRUE, status_code |-> 0, content |-> Garbage]

\* every way one request can complete: a RequestException, a non-200
\* response, a 200 with an undecodable body, a 200 whose JSON lacks the
\* expected key, a well-formed 200
Replies(cat, pages, url) ==
    {RaisedException}
    \cup {[exc |-> FALSE, status_code |-> 503, content |-> Garbage]}
    \cup {[exc |-> FALSE, status_code |-> 200, content |-> c] :
             c \in {Garbage, NoKey} \cup OkBodies(cat, pages, url)}

\* how a request completed, as the transport logs it
ReplyKind(r) ==
    CASE r.exc -> "exception"
      [] ~r.exc /\ r.status_code # 200 -> "non200"
      [] ~r.exc /\ r.status_code = 200 /\ r.content \in {Garbage, NoKey}
            -> "malformed"
      [] OTHER -> "ok"

\* the log entry of a request that has not completed
NotYet == "pending"

-----------------------------------------------------------------------------
(* The response handlers *)

\* what json.loads(resp.content.decode('utf8')) and jdata[key] raise
ReadError(content, key) ==
    IF ~content.decodable THEN "ValueError"
    ELSE IF key \notin DOMAIN content.json THEN "KeyError"
    ELSE "none"

\* Faulty variant of ExceptException: except KeyError, which lets a decoding error escape
ExceptKeyError(e) == e = "KeyError"

\* except Exception as e: every exception raised in the try block is caught
ExceptException(e) == TRUE

RECURSIVE PutRecords(_, _)
\* for record in results: guid = record['guid']; db.put(record).  The loop
\* is inside the try block, so the first record that raises ends it.
PutRecords(db, results) ==
    IF results = <<>> THEN [db |-> db, error |-> "none"]
    ELSE IF "guid" \notin DOMAIN Head(results)
    THEN [db |-> db, error |-> "KeyError"]
    ELSE PutRecords(CachePut(db, Head(results)), Tail(results))

\* the try block of _handle_responses for one response
HandleResponse(db, resp) ==
    IF resp.status_code # 200 THEN [db |-> db, error |-> "none"]
    ELSE IF ReadError(resp.content, "results") # "none"
    THEN [db |-> db, error |-> ReadError(resp.content, "results")]
    ELSE PutRecords(db, resp.content.json.results)

RECURSIVE HandleResponsesAborting(_, _)
\* Faulty variant of HandleResponses: the try block encloses the loop over the
\* responses, so the first response that raises ends the handling
HandleResponsesAborting(db, resps) ==
    IF resps = <<>> THEN [db |-> db, raised |-> "none"]
    ELSE LET r == HandleResponse(db, Head(resps))
         IN  IF r.error # "none"
             THEN [db |-> r.db, raised |-> "none"]
             ELSE HandleResponsesAborting(r.db, Tail(resps))

RECURSIVE HandleResponses(_, _)
\* _handle_responses(p, db) over the drained response queue
HandleResponses(db, resps) ==
    IF resps = <<>> THEN [db |-> db, raised |-> "none"]
    ELSE LET r == HandleResponse(db, Head(resps))
         IN  IF r.error # "none" /\ ~ExceptException(r.error)
             THEN [db |-> r.db, raised |-> r.error]
             ELSE HandleResponses(r.db, Tail(resps))

\* the try block of _handle_version_responses for one response
HandleVersionResponse(page_urls, resp) ==
    IF resp.status_code # 200 THEN [urls |-> page_urls, error |-> "none"]
    ELSE IF ReadError(resp.content, "page_count") # "none"
    THEN [urls |-> page_urls,
          error |-> ReadError(resp.content, "page_count")]
    ELSE [urls |-> Append(page_urls,
                          LastPageUrl(resp.url, resp.content.json.page_count)),
          error |-> "none"]

RECURSIVE HandleVersionResponsesFrom(_, _)
HandleVersionResponsesFrom(page_urls, resps) ==
    IF resps = <<>> THEN [urls |-> page_urls, raised |-> "none"]
    ELSE LET r == HandleVersionResponse(page_urls, Head(resps))
         IN  IF r.error # "none" /\ ~ExceptException(r.error)
             THEN [urls |-> r.urls, raised |-> r.error]
             ELSE HandleVersionResponsesFrom(r.urls, Tail(resps))

\* _handle_version_responses(p): page_urls starts empty
HandleVersionResponses(resps) == HandleVersionResponsesFrom(<<>>, resps)

\* what results[-1]['files'][0]['created'] raises
CreatedError(results) ==
    IF results = <<>> THEN "IndexError"
    ELSE IF "files" \notin DOMAIN results[Len(results)] THEN "KeyError"
    ELSE IF results[Len(results)].files = <<>> THEN "IndexError"
    ELSE IF "created" \notin DOMAIN results[Len(results)].files[1]
    THEN "KeyError"
    ELSE "none"

\* urllib.parse.unquote(resp.url.split("addon/")[1].split("/versions")[0])
UrlGuid(url) == Unquote(SplitFirst(url.path, "/versions"))

\* the try block of _handle_last_version_responses for one response
HandleLastVersionResponse(db, resp) ==
    IF resp.status_code # 200 THEN [db |-> db, error |-> "none"]
    ELSE IF ReadError(resp.content, "results") # "none"
    THEN [db |-> db, error |-> ReadError(resp.content, "results")]
    ELSE IF CreatedError(resp.content.json.results) # "none"
    THEN [db |-> db, error |-> CreatedError(resp.content.json.results)]
    ELSE LET results == resp.content.json.results
             record == [guid |-> UrlGuid(resp.url),
                        create_date |-> results[Len(results)].files[1].created]
         IN  [db |-> CachePut(db, record), error |-> "none"]

RECURSIVE HandleLastVersionResponses(_, _)
\* _handle_last_version_responses(p, db)
HandleLastVersionResponses(db, resps) ==
    IF resps = <<>> THEN [db |-> db, raised |-> "none"]
    ELSE LET r == HandleLastVersionResponse(db, Head(resps))
         IN  IF r.error # "none" /\ ~ExceptException(r.error)
             THEN [db |-> r.db, raised |-> r.error]
             ELSE HandleLastVersionResponses(r.db, Tail(resps))

-----------------------------------------------------------------------------
(* requests_toolbelt.threaded.pool.Pool *)

\* Faulty variant of NumProcesses: a pool with one thread more than MAX_PROCESSES
OneMoreProcess == MAX_PROCESSES + 1

\* num_processes=MAX_PROCESSES, as every Pool of the program is built
NumProcesses == MAX_PROCESSES

\* Pool.from_urls / Pool.from_exceptions: the job queue is filled, then
\* num_processes session threads are started
NewPool(urls, num_processes) ==
    /\ jobs' = [j \in 1..Len(urls) |-> j]
    /\ inflight' = {}
    /\ exited' = 0
    /\ nthreads' = num_processes
    /\ respq' = <<>>
    /\ excq' = <<>>
    /\ dispatched' = urls
    /\ got' = [j \in 1..Len(urls) |-> NotYet]

\* a session thread that has not terminated and holds no job
IdleThread == Cardinality(inflight) + exited < nthreads

\* requests received so far for url
Requests(url) == IF url \in DOMAIN nreq THEN nreq[url] ELSE 0

\* SessionThread: jobs.get_nowait() returns a job; the request is sent
ThreadTake ==
    /\ IdleThread
    /\ jobs # <<>>
    /\ jobs' = Tail(jobs)
    /\ inflight' = inflight \cup {Head(jobs)}
    /\ nreq' = (dispatched[Head(jobs)] :> Requests(dispatched[Head(jobs)]) + 1)
                   @@ nreq
    /\ UNCHANGED <<pc, page_count, amo_cache, amo_cache_dates, exited,
                   nthreads, respq, excq, dispatched, got, first, server,
                   putlog, catvars>>

\* Faulty variant of ThreadComplete: the session thread itself puts the records
\* of a response into the addon store when the response arrives
ThreadCompleteAndPut ==
    \E j \in inflight :
      \E r \in Replies(server, page_count, PreparedUrl(dispatched[j])) :
        /\ inflight' = inflight \ {j}
        /\ got' = [got EXCEPT ![j] = ReplyKind(r)]
        /\ excq' = IF r.exc THEN Append(excq, j) ELSE excq
        /\ respq' = respq
        /\ amo_cache' =
              IF r.exc \/ dispatched[j].kind # "search" THEN amo_cache
              ELSE HandleResponse(amo_cache,
                                  [job |-> j, status_code |-> r.status_code,
                                   content |-> r.content,
                                   url |-> PreparedUrl(dispatched[j])]).db
        /\ UNCHANGED <<pc, page_count, amo_cache_dates, jobs, exited,
                       nthreads, dispatched, first, nreq, server, putlog,
                       catvars>>

\* SessionThread._handle_request: session.request returns a response (of
\* any status) or raises; the outcome goes to the matching queue
ThreadComplete ==
    \E j \in inflight :
      \E r \in Replies(server, page_count, PreparedUrl(dispatched[j])) :
        /\ inflight' = inflight \ {j}
        /\ got' = [got EXCEPT ![j] = ReplyKind(r)]
        /\ IF r.exc
           THEN /\ excq' = Append(excq, j)
                /\ respq' = respq
           ELSE /\ respq' = Append(respq,
                                   [job |-> j,
                                    status_code |-> r.status_code,
                                    content |-> r.content,
                                    url |-> PreparedUrl(dispatched[j])])
                /\ excq' = excq
        /\ UNCHANGED <<pc, page_count, amo_cache, amo_cache_dates, jobs,
                       exited, nthreads, dispatched, first, nreq, server,
                       putlog, catvars>>

\* SessionThread: jobs.get_nowait() raises queue.Empty; the thread ends
ThreadExit ==
    /\ IdleThread
    /\ jobs = <<>>
    /\ exited' = exited + 1
    /\ UNCHANGED <<pc, page_count, amo_cache, amo_cache_dates, jobs,
                   inflight, nthreads, respq, excq, dispatched, got, first,
                   nreq, server, putlog, catvars>>

\* Faulty variant of Joined: the barrier waits for the job queue to drain only
JoinedOnEmptyQueue == jobs = <<>>

\* Pool.join_all returns: every session thread has been joined
Joined == exited = nthreads

AfterJoin(at) ==
    CASE at = "fp_join1" -> "fp_handle1"
      [] at = "fp_join2" -> "fp_handle2"
      [] at = "fv_join1" -> "fv_handle1"
      [] at = "fv_join2" -> "fv_handle2"

\* p.join_all()
JoinAll ==
    /\ pc \in {"fp_join1", "fp_join2", "fv_join1", "fv_join2"}
    /\ Joined
    /\ pc' = AfterJoin(pc)
    /\ UNCHANGED <<page_count, amo_cache, amo_cache_dates, jobs, inflight,
                   exited, nthreads, respq, excq, dispatched, got, first,
                   nreq, server, putlog, catvars>>

-----------------------------------------------------------------------------
(* AMODatabase *)

\* AMODatabase.__init__: page_count of the first search page
AMODatabaseInit ==
    /\ pc = "new"
    /\ \E n \in 1..MaxPageCount : page_count' = n
    /\ pc' = "idle"
    /\ UNCHANGED <<amo_cache, amo_cache_dates, jobs, inflight, exited,
                   nthreads, respq, excq, dispatched, got, first, nreq,
                   server, putlog, catvars>>

\* fetch_pages up to the first pool: the store is constructed, the page
\* URLs are built and dispatched
FetchPagesBegin ==
    /\ pc = "idle"
    /\ amo_cache' = CacheInit(amo_cache)
    /\ NewPool([i \in 1..page_count |-> PageUrl(i)], NumProcesses)
    /\ server' \in Catalogues
    /\ pc' = "fp_join1"
    /\ UNCHANGED <<page_count, amo_cache_dates, first, nreq, putlog, catvars>>

\* Faulty variant of FromExceptions: every URL of the first pool is dispatched again
FromEveryRequest(urls, exceptions) == urls

\* p.exceptions() handed to Pool.from_exceptions: the request of every
\* queued exception, in queue order
FromExceptions(urls, exceptions) ==
    [i \in 1..Len(exceptions) |-> urls[exceptions[i]]]

\* fetch_pages after the first join_all: the responses are handled, then
\* the requests that raised are dispatched again
FetchPagesRetry ==
    /\ pc = "fp_handle1"
    /\ LET r == HandleResponses(amo_cache, respq)
       IN  /\ amo_cache' = r.db
           /\ IF r.raised # "none"
              THEN /\ pc' = "raised"
                   /\ UNCHANGED <<poolvars, first>>
              ELSE /\ pc' = "fp_join2"
                   /\ first' = got
                   /\ NewPool(FromExceptions(dispatched, excq), NumProcesses)
    /\ UNCHANGED <<page_count, amo_cache_dates, nreq, server, putlog, catvars>>

\* fetch_pages after the second join_all: the retried responses are
\* handled; the second pool's exceptions are never read
FetchPagesFinish ==
    /\ pc = "fp_handle2"
    /\ LET r == HandleResponses(amo_cache, respq)
       IN  /\ amo_cache' = r.db
           /\ pc' = IF r.raised # "none" THEN "raised" ELSE "fp_done"
    /\ respq' = <<>>
    /\ UNCHANGED <<page_count, amo_cache_dates, jobs, inflight, exited,
                   nthreads, excq, dispatched, got, first, nreq, server,
                   putlog, catvars>>

\* every order in which os.listdir may return the files of dir
Listings(dir) ==
    {l \in [1..Cardinality(DOMAIN dir) -> DOMAIN dir] :
        \A i, j \in DOMAIN l : i # j => l[i] # l[j]}

\* version_gen(): one version-listing URL per file of /tmp/amo_cache
VersionGen(listing) ==
    [i \in 1..Len(listing) |-> VersionsUrl(FnameGuid(listing[i]))]

\* Faulty variant of FetchVersionsBegin: tinydb() with its default fpath, which
\* constructs the store on /tmp/amo_cache
FetchVersionsBeginDefaultPath ==
    /\ pc = "idle"
    /\ amo_cache' = CacheInit(amo_cache)
    /\ \E listing \in Listings(amo_cache) :
          NewPool(VersionGen(listing), NumProcesses)
    /\ pc' = "fv_join1"
    /\ UNCHANGED <<page_count, amo_cache_dates, first, nreq, server, putlog,
                   catvars>>

\* fetch_versions up to the first pool: the dates store is constructed and
\* the version-listing URLs are dispatched
FetchVersionsBegin ==
    /\ pc = "idle"
    /\ amo_cache_dates' = CacheInit(amo_cache_dates)
    /\ \E listing \in Listings(amo_cache) :
          NewPool(VersionGen(listing), NumProcesses)
    /\ pc' = "fv_join1"
    /\ UNCHANGED <<page_count, amo_cache, first, nreq, server, putlog, catvars>>

\* fetch_versions after the first join_all: the last-page URLs are built
\* from the listing responses and dispatched
FetchVersionsLast ==
    /\ pc = "fv_handle1"
    /\ LET r == HandleVersionResponses(respq)
       IN  IF r.raised # "none"
           THEN /\ pc' = "raised"
                /\ UNCHANGED <<poolvars, first>>
           ELSE /\ pc' = "fv_join2"
                /\ first' = first
                /\ NewPool(r.urls, NumProcesses)
    /\ UNCHANGED <<page_count, amo_cache, amo_cache_dates, nreq, server,
                   putlog, catvars>>

\* fetch_versions after the second join_all: the create dates are written
FetchVersionsFinish ==
    /\ pc = "fv_handle2"
    /\ LET r == HandleLastVersionResponses(amo_cache_dates, respq)
       IN  /\ amo_cache_dates' = r.db
           /\ pc' = IF r.raised # "none" THEN "raised" ELSE "fv_done"
    /\ respq' = <<>>
    /\ UNCHANGED <<page_count, amo_cache, jobs, inflight, exited, nthreads,
                   excq, dispatched, got, first, nreq, server, putlog, catvars>>

-----------------------------------------------------------------------------
(* What a run starts from *)

\* an addon store left by an earlier run: k addons, with their old content
PriorAddons(k) ==
    [f \in {Fname(G(i)) : i \in 1..k} |-> JsonDumps(Rec(FnameGuid(f), 0))]

\* an addon store holding the one addon whose guid is "{x}"
BracedAddon ==
    Fname(<<"{", "x", "}">>) :> JsonDumps(Rec(<<"{", "x", "}">>, 0))

\* an addon store holding two addons whose guids have ".json" inside, as
\* in "a.json-b@x" and "a.json-c@x"
DottedAddons ==
    [f \in {Fname(<<"a", ".json", t>>) : t \in {"b", "c"}} |->
        JsonDumps(Rec(<<"a", ".json", f[3]>>, 0))]

PriorAddonStores ==
    {PriorAddons(k) : k \in 0..MaxPriorFiles} \cup {BracedAddon, DottedAddons}

\* a dates store left by an earlier run
PriorDates ==
    Fname(G(1)) :> JsonDumps([guid |-> G(1),
                              create_date |-> Created(<<"old">>, 1)])

PriorDateStores == {EmptyDir, PriorDates}

Init ==
    /\ pc = "new"
    /\ page_count = 0
    /\ amo_cache \in PriorAddonStores
    /\ amo_cache_dates \in PriorDateStores
    /\ jobs = <<>>
    /\ inflight = {}
    /\ exited = 0
    /\ nthreads = 0
    /\ respq = <<>>
    /\ excq = <<>>
    /\ dispatched = <<>>
    /\ got = <<>>
    /\ first = <<>>
    /\ nreq = [u \in {} |-> 0]
    /\ server = "unknown"
    /\ putlog = <<>>
    /\ todo = <<>>
    /\ calls = <<>>
    /\ schema = "none"
    /\ raw = <<"null">>
    /\ out = <<>>

Next ==
    \/ AMODatabaseInit
    \/ FetchPagesBegin
    \/ FetchPagesRetry
    \/ FetchPagesFinish
    \/ FetchVersionsBegin
    \/ FetchVersionsLast
    \/ FetchVersionsFinish
    \/ JoinAll
    \/ ThreadTake
    \/ ThreadComplete
    \/ ThreadExit

Spec == Init /\ [][Next]_vars

-----------------------------------------------------------------------------
(* Vocabulary of the properties *)

\* the request has completed, one way or the other
Completed(k) == k # NotYet

\* a failure in the spec's sense: a network exception or a non-200
Failure(k) == k \in {"exception", "non200"}

\* an HTTP 200 response
Is200(k) == k \in {"malformed", "ok"}

\* an HTTP 200 response whose body decodes and holds the expected keys
WellFormed(k) == k = "ok"

\* fetch_pages has built its retry pool: first holds the initial round
Retrying == first # <<>>

\* the jobs of the retry round that request page i again
RetryJobs(i) == {j \in DOMAIN dispatched : dispatched[j] = PageUrl(i)}

\* the records with a guid on search page i
GoodRecords(i) ==
    LET results == PageResults(server, i)
    IN  {results[k] : k \in {k \in DOMAIN results : "guid" \in DOMAIN results[k]}}

\* the guids listed on search page i
PageGuids(i) == {r.guid : r \in GoodRecords(i)}

\* the guids listed on page i and on no other page
OnlyOn(i) ==
    {g \in PageGuids(i) : \A k \in 1..page_count : k # i => g \notin PageGuids(k)}

\* a well-formed 200 for page i was received in this call of fetch_pages
Received(i) ==
    IF Retrying
    THEN \/ WellFormed(first[i])
         \/ \E j \in RetryJobs(i) : WellFormed(got[j])
    ELSE /\ i \in DOMAIN got
         /\ dispatched[i] = PageUrl(i)
         /\ WellFormed(got[i])

-----------------------------------------------------------------------------
(* C1 *)

\* C1 (as claimed): when fetch_pages returns, if every page whose first
\* request failed (exception or non-200) answers a well-formed 200 when it
\* is requested again, the store's keys are exactly the guids of the
\* results of pages 1..page_count, one entry per guid.  Read charitably:
\* every first-round 200 is well-formed and every record has a guid.
C1_RetryRecoversAll ==
    ( /\ pc = "fp_done"
      /\ server # "badrecord"
      /\ \A i \in 1..page_count :
            /\ ~Failure(first[i]) => WellFormed(first[i])
            /\ \A j \in RetryJobs(i) : WellFormed(got[j]) )
    => /\ DOMAIN amo_cache =
             {Fname(g) : g \in UNION {PageGuids(i) : i \in 1..page_count}}
       /\ Cardinality(DOMAIN amo_cache) =
             Cardinality(UNION {PageGuids(i) : i \in 1..page_count})

-----------------------------------------------------------------------------
(* C2 *)

\* page i failed in the initial round and again in the retry round
FailedBoth(i) ==
    /\ Retrying
    /\ i \in DOMAIN first
    /\ Failure(first[i])
    /\ \E j \in RetryJobs(i) : Failure(got[j])

\* page i failed in the initial round and no retry of it has succeeded
NotRecovered(i) ==
    /\ Retrying
    /\ i \in DOMAIN first
    /\ Failure(first[i])
    /\ \A j \in RetryJobs(i) : ~Is200(got[j])

\* C2: if a page fails in the initial round and in the retry round, no
\* exception escapes fetch_pages, and from the initial failure on (while
\* the retry is pending and after it has failed) the store holds no record
\* of a guid listed on that page and on no other.
C2_TwiceFailedDropped ==
    /\ pc = "raised" => \A i \in 1..page_count : ~FailedBoth(i)
    /\ \A f \in DOMAIN amo_cache :
          \A i \in 1..page_count :
              NotRecovered(i) => FnameGuid(f) \notin OnlyOn(i)

\* fetch_pages has returned, a page failed twice, and other pages' records
\* are in the store
C2_Witness ==
    /\ pc = "fp_done"
    /\ amo_cache # EmptyDir
    /\ \E i \in 1..page_count : FailedBoth(i) /\ OnlyOn(i) # {}

-----------------------------------------------------------------------------
(* C3 *)

\* C3 (as claimed): the URLs dispatched in the retry round are exactly the
\* URLs whose first-round completion failed, by exception or by non-200.
C3_RetryExactlyFailures ==
    Retrying =>
        {dispatched[j] : j \in DOMAIN dispatched} =
            {PageUrl(i) : i \in {i \in DOMAIN first : Failure(first[i])}}

-----------------------------------------------------------------------------
(* C4 *)

\* the first-round completion of page i, once there is one
FirstOutcome(i) ==
    IF Retrying THEN first[i]
    ELSE IF i \in DOMAIN got /\ dispatched[i] = PageUrl(i) THEN got[i]
    ELSE NotYet

\* C4: fetch_pages requests no page URL more than twice, and a URL whose
\* first-round completion was an HTTP 200 response is requested once.
C4_AtMostOneRetry ==
    \A i \in 1..page_count :
        /\ Requests(PageUrl(i)) <= 2
        /\ Is200(FirstOutcome(i)) => Requests(PageUrl(i)) = 1

\* fetch_pages has returned after requesting one page twice and another,
\* answered 200 at once, a single time
C4_Witness ==
    /\ pc = "fp_done"
    /\ \E i \in 1..page_count : Requests(PageUrl(i)) = 2
    /\ \E i \in 1..page_count :
          Is200(first[i]) /\ Requests(PageUrl(i)) = 1

-----------------------------------------------------------------------------
(* C5 *)

\* every request of the current pool has completed or failed
PoolDone ==
    /\ jobs = <<>>
    /\ inflight = {}
    /\ \A j \in DOMAIN got : Completed(got[j])

\* C5: in fetch_pages a step that starts a retry-round request happens only
\* when every first-round request has completed or failed, and a step that
\* writes to the store happens only when every request of the round being
\* handled (initial, then retry) has completed or failed.
C5_PhaseOrdering ==
    [][ /\ (pc \in {"fp_join1", "fp_handle1", "fp_join2", "fp_handle2"}
              /\ amo_cache' # amo_cache)
           => PoolDone
        /\ (Retrying /\ nreq' # nreq)
           => \A i \in DOMAIN first : Completed(first[i]) ]_vars

\* a retry-round request is in flight while the store already holds the
\* records of the initial round
C5_Witness ==
    /\ pc = "fp_join2"
    /\ inflight # {}
    /\ amo_cache # EmptyDir

-----------------------------------------------------------------------------
(* C6 *)

\* the main thread is past a join_all and has not handled the responses
AfterBarrier == pc \in {"fp_handle1", "fp_handle2", "fv_handle1", "fv_handle2"}

\* C6: in every phase at most MAX_PROCESSES requests are in flight, and
\* when join_all has returned every dispatched job is on the response
\* queue or on the exception queue.
C6_BoundedPool ==
    /\ Cardinality(inflight) <= MAX_PROCESSES
    /\ AfterBarrier =>
          {respq[k].job : k \in DOMAIN respq} \cup {excq[k] : k \in DOMAIN excq}
              = DOMAIN dispatched

\* the retry pool is saturated: MAX_PROCESSES requests in flight and a
\* job still waiting in the queue
C6_Witness ==
    /\ pc = "fp_join2"
    /\ Cardinality(inflight) = MAX_PROCESSES
    /\ jobs # <<>>

-----------------------------------------------------------------------------
(* C7 *)

\* C7 (as claimed): every record with a guid of a well-formed 200 page is
\* in the store when fetch_pages returns, whatever other records the page
\* holds.
C7_OnlyBadRecordSkipped ==
    pc = "fp_done" =>
        \A i \in 1..page_count :
            Received(i) => \A g \in PageGuids(i) : Fname(g) \in DOMAIN amo_cache

-----------------------------------------------------------------------------
(* C8 *)

\* a 200 response whose body does not decode or lacks key
Malformed(resp, key) ==
    resp.status_code = 200 /\ ReadError(resp.content, key) # "none"

\* the responses without the malformed ones, in the same order
WithoutMalformed(resps, key) ==
    SelectSeq(resps, LAMBDA resp : ~Malformed(resp, key))

\* C8: each handler, run on the responses of its pool, raises nothing and
\* yields what it yields on the same responses with the malformed ones
\* taken out.
C8_MalformedSkipped ==
    /\ pc \in {"fp_handle1", "fp_handle2"} =>
          /\ HandleResponses(amo_cache, respq).raised = "none"
          /\ HandleResponses(amo_cache, respq).db =
                HandleResponses(amo_cache,
                                WithoutMalformed(respq, "results")).db
    /\ pc = "fv_handle1" =>
          /\ HandleVersionResponses(respq).raised = "none"
          /\ HandleVersionResponses(respq).urls =
                HandleVersionResponses(
                    WithoutMalformed(respq, "page_count")).urls
    /\ pc = "fv_handle2" =>
          /\ HandleLastVersionResponses(amo_cache_dates, respq).raised = "none"
          /\ HandleLastVersionResponses(amo_cache_dates, respq).db =
                HandleLastVersionResponses(
                    amo_cache_dates, WithoutMalformed(respq, "results")).db

\* the responses about to be handled hold a malformed one ahead of a
\* well-formed one
C8_Witness ==
    /\ pc = "fp_handle1"
    /\ \E k, l \in DOMAIN respq :
          /\ k < l
          /\ Malformed(respq[k], "results")
          /\ respq[l].status_code = 200
          /\ ~Malformed(respq[l], "results")

-----------------------------------------------------------------------------
(* The store on its own: a caller constructs it and puts documents *)

\* the documents the caller puts: two guids, two contents each
Docs == {Rec(G(i), n) : i \in {1, 2}, n \in {1, 2}}

InitStore ==
    /\ pc = "store_new"
    /\ page_count = 0
    /\ amo_cache \in PriorAddonStores
    /\ amo_cache_dates = EmptyDir
    /\ jobs = <<>>
    /\ inflight = {}
    /\ exited = 0
    /\ nthreads = 0
    /\ respq = <<>>
    /\ excq = <<>>
    /\ dispatched = <<>>
    /\ got = <<>>
    /\ first = <<>>
    /\ nreq = [u \in {} |-> 0]
    /\ server = "unknown"
    /\ putlog = <<>>
    /\ todo = <<>>
    /\ calls = <<>>
    /\ schema = "none"
    /\ raw = <<"null">>
    /\ out = <<>>

\* with tinydb() as db: Cache(fpath) is constructed
StoreConstruct ==
    /\ pc = "store_new"
    /\ amo_cache' = CacheInit(amo_cache)
    /\ pc' = "store_open"
    /\ UNCHANGED <<page_count, amo_cache_dates, poolvars, first, nreq, server,
                   putlog, catvars>>

\* db.put(data)
StorePut ==
    /\ pc = "store_open"
    /\ Len(putlog) < MaxPuts
    /\ \E data \in Docs :
          /\ amo_cache' = CachePut(amo_cache, data)
          /\ putlog' = Append(putlog, data)
    /\ UNCHANGED <<pc, page_count, amo_cache_dates, poolvars, first, nreq,
                   server, catvars>>

NextStore ==
    \/ StoreConstruct
    \/ StorePut

SpecStore == InitStore /\ [][NextStore]_vars

-----------------------------------------------------------------------------
(* C9 *)

\* put number k is the latest put of its guid
Latest(k) ==
    \A l \in DOMAIN putlog : l > k => putlog[l].guid # putlog[k].guid

\* C9: after any sequence of puts on a constructed store, the store holds
\* one file per guid that was put and none other, each file holds the
\* document of the latest put of its guid, putting the last document
\* again changes nothing, and a put leaves every other guid's file as it
\* was.
C9_LastWriterWins ==
    pc = "store_open" =>
        /\ DOMAIN amo_cache = {Fname(putlog[k].guid) : k \in DOMAIN putlog}
        /\ \A k \in DOMAIN putlog :
              Latest(k) =>
                  JsonLoads(amo_cache[Fname(putlog[k].guid)]) = putlog[k]
        /\ putlog # <<>> =>
              CachePut(amo_cache, putlog[Len(putlog)]) = amo_cache
        /\ \A data \in Docs :
              \A f \in DOMAIN amo_cache :
                  f # Fname(data.guid) =>
                      CachePut(amo_cache, data)[f] = amo_cache[f]

\* a guid was put twice with different documents, and another guid too
C9_Witness ==
    /\ pc = "store_open"
    /\ \E k, l, m \in DOMAIN putlog :
          /\ k < l
          /\ putlog[k].guid = putlog[l].guid
          /\ putlog[k] # putlog[l]
          /\ putlog[m].guid # putlog[k].guid

-----------------------------------------------------------------------------
(* C10 *)

\* the record a well-formed 200 answer to job j of the last-page pool
\* gives: the guid of the echoed URL, the created timestamp of that page
DateRecord(j) ==
    [guid |-> Unquote(PreparedUrl(dispatched[j]).path),
     create_date |-> Created(PreparedUrl(dispatched[j]).path,
                             dispatched[j].page)]

\* C10: when fetch_pages returns, every file of the addon store holds a
\* record of the results of a well-formed 200 response received in that
\* call, under that record's guid; when fetch_versions returns, every file
\* of the dates store holds the record made from a well-formed 200
\* last-page response received in that call.
C10_NoPriorState ==
    /\ pc = "fp_done" =>
          \A f \in DOMAIN amo_cache :
              \E i \in 1..page_count :
                  /\ Received(i)
                  /\ \E r \in GoodRecords(i) :
                        f = Fname(r.guid) /\ amo_cache[f] = JsonDumps(r)
    /\ pc = "fv_done" =>
          \A f \in DOMAIN amo_cache_dates :
              \E j \in DOMAIN got :
                  /\ WellFormed(got[j])
                  /\ f = Fname(DateRecord(j).guid)
                  /\ amo_cache_dates[f] = JsonDumps(DateRecord(j))

\* fetch_pages has returned with records in the store, on a disk that an
\* earlier run had left populated
C10_Witness ==
    /\ pc = "fp_done"
    /\ amo_cache # EmptyDir
    /\ amo_cache_dates = PriorDates

-----------------------------------------------------------------------------
(* JSON values, as json.loads returns them and marshal builds them *)

\* A value is a tagged tuple: <<"null">>, <<"bool", b>>, <<"int", n>>,
\* <<"float", t>> (t tenths, so 1.5 is <<"float", 15>>), <<"str", s>>,
\* <<"list", sequence of values>>, <<"dict", function from keys to values>>.
\* What a call raises is the value <<"raise", name of the exception>>.
JNull == <<"null">>

JBool(b) == <<"bool", b>>

JInt(n) == <<"int", n>>

JFloat(tenths) == <<"float", tenths>>

JStr(s) == <<"str", s>>

JList(items) == <<"list", items>>

JDict(d) == <<"dict", d>>

Raise(e) == <<"raise", e>>

IsRaise(v) == v[1] = "raise"

\* the first element of seq that is a raise, or seq itself when none is
FirstRaise(seq) ==
    LET failing == {i \in DOMAIN seq : IsRaise(seq[i])}
    IN  IF failing = {} THEN JList(seq)
        ELSE seq[CHOOSE i \in failing : \A j \in failing : i <= j]

\* the characters of a string, as iterating it yields them
Chars(s) == [i \in 1..Len(s) |-> JStr(SubSeq(s, i, i))]

IsDigit(c) == \E d \in 0..9 : ToString(d) = c

DigitValue(c) == CHOOSE d \in 0..9 : ToString(d) = c

AllDigits(s) == Len(s) > 0 /\ \A i \in 1..Len(s) : IsDigit(SubSeq(s, i, i))

RECURSIVE Digits(_)
\* the number a string of decimal digits denotes
Digits(s) ==
    IF Len(s) = 0 THEN 0
    ELSE 10 * Digits(SubSeq(s, 1, Len(s) - 1))
         + DigitValue(SubSeq(s, Len(s), Len(s)))

\* a string of the form digits "." digit
IsDecimal(s) ==
    /\ Len(s) >= 3
    /\ SubSeq(s, Len(s) - 1, Len(s) - 1) = "."
    /\ AllDigits(SubSeq(s, 1, Len(s) - 2))
    /\ IsDigit(SubSeq(s, Len(s), Len(s)))

\* repr of a float: "1.5"
FloatRepr(tenths) == ToString(tenths \div 10) \o "." \o ToString(tenths % 10)

RECURSIVE Repr(_), ReprItems(_), ReprPairs(_)
\* repr(value), which str() gives for everything but a str
Repr(v) ==
    CASE v[1] = "null"  -> "None"
      [] v[1] = "bool"  -> IF v[2] THEN "True" ELSE "False"
      [] v[1] = "int"   -> ToString(v[2])
      [] v[1] = "float" -> FloatRepr(v[2])
      [] v[1] = "str"   -> "'" \o v[2] \o "'"
      [] v[1] = "list"  -> "[" \o ReprItems(v[2]) \o "]"
      [] v[1] = "dict"  -> "{" \o ReprPairs(v[2]) \o "}"

ReprItems(items) ==
    IF items = <<>> THEN ""
    ELSE IF Len(items) = 1 THEN Repr(items[1])
    ELSE Repr(items[1]) \o ", " \o ReprItems(Tail(items))

\* the items of a dict, in the one order the dict has them (the model
\* fixes an order per key set)
ReprPairs(d) ==
    IF DOMAIN d = {} THEN ""
    ELSE LET k == CHOOSE k \in DOMAIN d : TRUE
             rest == [j \in DOMAIN d \ {k} |-> d[j]]
         IN  "'" \o k \o "': " \o Repr(d[k])
             \o (IF DOMAIN rest = {} THEN "" ELSE ", " \o ReprPairs(rest))

\* Faulty variant of StrOf: repr(value) in place of str(value)
ReprOf(v) == JStr(Repr(v))

\* str(value)
StrOf(v) == IF v[1] = "str" THEN v ELSE JStr(Repr(v))

\* int(value): a number is truncated, a string is read as a decimal
\* literal, None and containers are a TypeError
IntOf(v) ==
    CASE v[1] = "int"   -> v
      [] v[1] = "bool"  -> JInt(IF v[2] THEN 1 ELSE 0)
      [] v[1] = "float" -> JInt(v[2] \div 10)
      [] v[1] = "str"   -> IF AllDigits(v[2]) THEN JInt(Digits(v[2]))
                           ELSE Raise("ValueError")
      [] OTHER          -> Raise("TypeError")

\* float(value)
FloatOf(v) ==
    CASE v[1] = "float" -> v
      [] v[1] = "int"   -> JFloat(10 * v[2])
      [] v[1] = "bool"  -> JFloat(IF v[2] THEN 10 ELSE 0)
      [] v[1] = "str"   ->
            IF AllDigits(v[2]) THEN JFloat(10 * Digits(v[2]))
            ELSE IF IsDecimal(v[2])
            THEN JFloat(10 * Digits(SubSeq(v[2], 1, Len(v[2]) - 2))
                        + DigitValue(SubSeq(v[2], Len(v[2]), Len(v[2]))))
            ELSE Raise("ValueError")
      [] OTHER          -> Raise("TypeError")

\* bool(value): the truth value; nothing raises
BoolOf(v) ==
    CASE v[1] = "null"  -> JBool(FALSE)
      [] v[1] = "bool"  -> v
      [] v[1] = "int"   -> JBool(v[2] # 0)
      [] v[1] = "float" -> JBool(v[2] # 0)
      [] v[1] = "str"   -> JBool(Len(v[2]) > 0)
      [] v[1] = "list"  -> JBool(v[2] # <<>>)
      [] v[1] = "dict"  -> JBool(DOMAIN v[2] # {})

-----------------------------------------------------------------------------
(* Schemas and the marshaller *)

\* type definitions: the scalar types, typing.List[item], typing.Dict[k, v]
\* and the JSONSchema subclasses (by name)
str == <<"type", "str">>

int == <<"type", "int">>

float == <<"type", "float">>

bool == <<"type", "bool">>

List(item_type) == <<"List", item_type>>

Dict(k_cast, v_cast) == <<"Dict", k_cast, v_cast>>

JSONSchema(name) == <<"JSONSchema", name>>

\* the meta of each schema: attr_name and type_def, in declaration order
AMOAddonFile ==
    << <<"id", int>>,
       <<"platform", str>>,
       <<"status", str>>,
       <<"is_webextension", bool>> >>

AMOAddonVersion ==
    << <<"files", List(JSONSchema("AMOAddonFile"))>> >>

AMOAddonInfo ==
    << <<"guid", str>>,
       <<"categories", Dict(str, List(str))>>,
       <<"default_locale", str>>,
       <<"description", Dict(str, str)>>,
       <<"name", Dict(str, str)>>,
       <<"current_version", JSONSchema("AMOAddonVersion")>>,
       <<"ratings", Dict(str, float)>>,
       <<"summary", Dict(str, str)>>,
       <<"tags", List(str)>>,
       <<"weekly_downloads", int>> >>

Schemas == {"AMOAddonFile", "AMOAddonVersion", "AMOAddonInfo"}

\* schema.meta
Meta(name) ==
    CASE name = "AMOAddonFile"    -> AMOAddonFile
      [] name = "AMOAddonVersion" -> AMOAddonVersion
      [] name = "AMOAddonInfo"    -> AMOAddonInfo

\* the attr_names a schema declares
Declared(name) == {Meta(name)[i][1] : i \in DOMAIN Meta(name)}

\* class Undefined: the default of json_data.get
Undefined == <<"Undefined">>

\* Faulty variant of Get: json_data.get(attr_name), whose default is None
GetOrNone(d, attr_name) ==
    IF attr_name \in DOMAIN d THEN d[attr_name] ELSE JNull

\* json_data.get(attr_name, Undefined)
Get(d, attr_name) ==
    IF attr_name \in DOMAIN d THEN d[attr_name] ELSE Undefined

\* Faulty variant of IsNone: the None test of the Dict branch left out
NeverNone(value) == FALSE

\* value is None
IsNone(value) == value = JNull

\* serializers[type_def](value) for the scalar types
Serializers(type_def, value) ==
    CASE type_def = str   -> StrOf(value)
      [] type_def = int   -> IntOf(value)
      [] type_def = float -> FloatOf(value)
      [] type_def = bool  -> BoolOf(value)

RECURSIVE KeysOf(_)
\* the keys of a dict in the order iterating it yields them
KeysOf(d) ==
    IF DOMAIN d = {} THEN <<>>
    ELSE LET k == CHOOSE k \in DOMAIN d : TRUE
         IN  <<JStr(k)>> \o KeysOf([j \in DOMAIN d \ {k} |-> d[j]])

\* for j in value: the items of a list, the characters of a str, the keys
\* of a dict; anything else is not iterable
Iter(value) ==
    CASE value[1] = "list" -> value
      [] value[1] = "str"  -> JList(Chars(value[2]))
      [] value[1] = "dict" -> JList(KeysOf(value[2]))
      [] OTHER             -> Raise("TypeError")

RECURSIVE FixTypes(_, _, _), Marshal(_, _)
\* fix_types(value, attr_name, type_def)
FixTypes(value, attr_name, type_def) ==
    CASE type_def[1] = "JSONSchema" -> Marshal(type_def[2], value)
      [] type_def[1] = "List" ->
            LET items == Iter(value)
            IN  IF IsRaise(items) THEN items
                ELSE FirstRaise([j \in DOMAIN items[2] |->
                                   FixTypes(items[2][j], attr_name,
                                            type_def[2])])
      [] type_def[1] = "Dict" ->
            IF IsNone(value) THEN JNull
            ELSE IF value[1] # "dict" THEN Raise("AttributeError")
            ELSE LET d == value[2]
                     k_cast == type_def[2]
                     v_cast == type_def[3]
                     ks == [k \in DOMAIN d |->
                              FixTypes(JStr(k), attr_name, k_cast)]
                     vs == [k \in DOMAIN d |->
                              FixTypes(d[k], attr_name, v_cast)]
                     failing == {k \in DOMAIN d :
                                    IsRaise(ks[k]) \/ IsRaise(vs[k])}
                 IN  IF failing # {}
                     THEN LET k == CHOOSE k \in failing : TRUE
                          IN  IF IsRaise(ks[k]) THEN ks[k] ELSE vs[k]
                     ELSE JDict([c \in {ks[k][2] : k \in DOMAIN d} |->
                                   vs[CHOOSE k \in DOMAIN d : ks[k][2] = c]])
      [] OTHER -> Serializers(type_def, value)

\* marshal(schema, json_data): a raise of json_data.get or of fix_types
\* leaves marshal; otherwise obj holds one key per attr_name that get found
Marshal(name, json_data) ==
    IF json_data[1] # "dict" THEN Raise("AttributeError")
    ELSE LET meta == Meta(name)
             found == {i \in DOMAIN meta :
                          Get(json_data[2], meta[i][1]) # Undefined}
             fixed == [i \in found |->
                          FixTypes(Get(json_data[2], meta[i][1]),
                                   meta[i][1], meta[i][2])]
             failing == {i \in found : IsRaise(fixed[i])}
         IN  IF failing # {}
             THEN fixed[CHOOSE i \in failing : \A j \in failing : i <= j]
             ELSE JDict([a \in {meta[i][1] : i \in found} |->
                           fixed[CHOOSE i \in found : meta[i][1] = a]])

-----------------------------------------------------------------------------
(* The catalog pass: get_version_info, parse_file, main *)

RECURSIVE Text(_)
\* the text a token sequence stands for
Text(tokens) ==
    IF tokens = <<>> THEN "" ELSE Head(tokens) \o Text(Tail(tokens))

\* Faulty variant of GetVersionInfo: without a file of the guid's own, the
\* date of some file of the directory is returned
GetVersionInfoOfAny(dates, guid) ==
    IF DOMAIN dates = {} THEN Raise("FileNotFoundError")
    ELSE LET f == IF Fname(guid) \in DOMAIN dates THEN Fname(guid)
                  ELSE CHOOSE f \in DOMAIN dates : TRUE
         IN  JsonLoads(dates[f])[2].create_date

\* get_version_info(guid): open raises when the dates store has no file
\* of that guid
GetVersionInfo(dates, guid) ==
    IF Fname(guid) \notin DOMAIN dates THEN Raise("FileNotFoundError")
    ELSE LET data == JsonLoads(dates[Fname(guid)])
         IN  IF "create_date" \notin DOMAIN data[2] THEN Raise("KeyError")
             ELSE data[2].create_date

\* parse_file(guid): what it returns, or what it raises
ParseFile(addons, dates, guid) ==
    IF Fname(guid) \notin DOMAIN addons THEN Raise("FileNotFoundError")
    ELSE LET data == JsonLoads(addons[Fname(guid)])
             result == Marshal("AMOAddonInfo", data)
             first_create_date == GetVersionInfo(dates, guid)
         IN  IF IsRaise(result) THEN result
             ELSE IF IsRaise(first_create_date) THEN first_create_date
             ELSE JDict(("first_create_date" :> first_create_date)
                        @@ result[2])

\* main() up to its loop: os.listdir("/tmp/amo_cache/")
Main ==
    /\ pc = "cat_idle"
    /\ todo' \in Listings(amo_cache)
    /\ pc' = "main_loop"
    /\ UNCHANGED <<page_count, amo_cache, amo_cache_dates, poolvars, first,
                   nreq, server, putlog, calls, schema, raw, out>>

\* one turn of main's loop: parse_file(fname), with the file name as
\* os.listdir gave it; what parse_file raises leaves main
MainParseFile ==
    /\ pc = "main_loop"
    /\ todo # <<>>
    /\ LET ret == ParseFile(amo_cache, amo_cache_dates, Head(todo))
       IN  /\ calls' = Append(calls, [guid |-> Head(todo), ret |-> ret])
           /\ IF IsRaise(ret)
              THEN pc' = "raised" /\ todo' = todo
              ELSE pc' = pc /\ todo' = Tail(todo)
    /\ UNCHANGED <<page_count, amo_cache, amo_cache_dates, poolvars, first,
                   nreq, server, putlog, schema, raw, out>>

\* main() returns: the loop has visited every file
MainReturn ==
    /\ pc = "main_loop"
    /\ todo = <<>>
    /\ pc' = "main_done"
    /\ UNCHANGED <<page_count, amo_cache, amo_cache_dates, poolvars, first,
                   nreq, server, putlog, catvars>>

\* the guids a caller may ask parse_file for
CallGuids == {G(i) : i \in 1..MaxPriorFiles}

\* data = parse_file(guid), as the __main__ block calls it
ParseFileCall ==
    /\ pc = "cat_idle"
    /\ \E guid \in CallGuids :
          calls' = <<[guid |-> guid,
                      ret |-> ParseFile(amo_cache, amo_cache_dates, guid)]>>
    /\ pc' = "pf_done"
    /\ UNCHANGED <<page_count, amo_cache, amo_cache_dates, poolvars, first,
                   nreq, server, putlog, todo, schema, raw, out>>

\* the documents an addon file may hold: one that marshals, one whose
\* weekly_downloads is no number, one whose current_version is no mapping
DocKinds == {"good", "badscalar", "nonmapping"}

\* the JSON document of the addon with guid g
AddonDoc(g, kind) ==
    JDict([guid |-> JStr(Text(g)),
           slug |-> JStr("s"),
           name |-> JDict([en |-> JStr("ab")]),
           current_version |->
               IF kind = "nonmapping" THEN JList(<<JStr("ab")>>)
               ELSE JDict([files |-> JList(<<JDict([id |-> JInt(12),
                                                    platform |-> JStr("all")])
                                           >>)]),
           weekly_downloads |->
               IF kind = "badscalar" THEN JStr("ab") ELSE JInt(7)])

\* the record fetch_versions wrote for guid g
DateDoc(g) ==
    JDict([guid |-> JStr(Text(g)),
           create_date |-> JStr("created-" \o Text(g))])

\* the addon stores of the catalog pass: any of the guids, any document each
CatalogAddonStores ==
    UNION {[{Fname(g) : g \in gs} -> DocKinds] : gs \in SUBSET CallGuids}

CatalogDateStores ==
    {[f \in {Fname(g) : g \in gs} |-> JsonDumps(DateDoc(FnameGuid(f)))] :
        gs \in SUBSET CallGuids}

InitCatalog ==
    /\ pc = "cat_idle"
    /\ page_count = 0
    /\ \E kinds \in CatalogAddonStores :
          amo_cache = [f \in DOMAIN kinds |->
                          JsonDumps(AddonDoc(FnameGuid(f), kinds[f]))]
    /\ amo_cache_dates \in CatalogDateStores
    /\ jobs = <<>>
    /\ inflight = {}
    /\ exited = 0
    /\ nthreads = 0
    /\ respq = <<>>
    /\ excq = <<>>
    /\ dispatched = <<>>
    /\ got = <<>>
    /\ first = <<>>
    /\ nreq = [u \in {} |-> 0]
    /\ server = "unknown"
    /\ putlog = <<>>
    /\ todo = <<>>
    /\ calls = <<>>
    /\ schema = "none"
    /\ raw = <<"null">>
    /\ out = <<>>

NextCatalog ==
    \/ Main
    \/ MainParseFile
    \/ MainReturn
    \/ ParseFileCall

SpecCatalog == InitCatalog /\ [][NextCatalog]_vars

-----------------------------------------------------------------------------
(* C13 *)

\* the document in file f of the addon store marshals under AMOAddonInfo
Marshals(f) == ~IsRaise(Marshal("AMOAddonInfo", JsonLoads(amo_cache[f])))

\* the enriched record of the addon in file f
Enriched(f) ==
    JDict(("first_create_date" :>
               JsonLoads(amo_cache_dates[f])[2].create_date)
          @@ Marshal("AMOAddonInfo", JsonLoads(amo_cache[f]))[2])

\* main is over: it has returned, or an exception has left it
MainOver == pc = "main_done" \/ (pc = "raised" /\ todo # <<>>)

\* C13: when every file of the addon store has its file in the dates store
\* and holds a document that marshals, main returns after as many
\* parse_file calls as the store has keys, and for every key one call
\* returned the enriched record: the marshalled document, whose guid is
\* the key, with the create_date of the dates store as first_create_date.
C13_OneRecordPerKey ==
    (/\ MainOver
     /\ \A f \in DOMAIN amo_cache :
           f \in DOMAIN amo_cache_dates /\ Marshals(f))
    => /\ pc = "main_done"
       /\ Len(calls) = Cardinality(DOMAIN amo_cache)
       /\ \A f \in DOMAIN amo_cache :
             /\ Enriched(f)[2].guid = JStr(Text(FnameGuid(f)))
             /\ \E k \in DOMAIN calls : calls[k].ret = Enriched(f)

-----------------------------------------------------------------------------
(* C14 *)

\* a record-level error awaits the key of file f: its document does not
\* marshal (a scalar that cannot be narrowed, a nested object that is no
\* mapping) or the dates store has no record for it
RecordError(f) == ~Marshals(f) \/ f \notin DOMAIN amo_cache_dates

\* C14: when some key of the addon store has a record-level error, main
\* still returns, no exception leaves it, and the enriched record of
\* every key without such an error has been produced.
C14_PassSurvivesRecordError ==
    (MainOver /\ \E f \in DOMAIN amo_cache : RecordError(f))
    => /\ pc = "main_done"
       /\ \A f \in DOMAIN amo_cache :
             ~RecordError(f) => \E k \in DOMAIN calls : calls[k].ret = Enriched(f)

-----------------------------------------------------------------------------
(* C15 *)

\* the record of the dates store for guid
DateOf(guid) == JsonLoads(amo_cache_dates[Fname(guid)])[2]

\* C15: a parse_file call for a guid that has a file in the addon store
\* and none in the dates store raises; and a parse_file call that returns
\* a record returns one whose first_create_date is the create_date the
\* dates store holds for the guid of the call.
C15_MissingDateSurfaces ==
    \A k \in DOMAIN calls :
        /\ (/\ Fname(calls[k].guid) \in DOMAIN amo_cache
            /\ Fname(calls[k].guid) \notin DOMAIN amo_cache_dates)
           => IsRaise(calls[k].ret)
        /\ ~IsRaise(calls[k].ret)
           => /\ "first_create_date" \in DOMAIN calls[k].ret[2]
              /\ Fname(calls[k].guid) \in DOMAIN amo_cache_dates
              /\ DateOf(calls[k].guid).guid = JStr(Text(calls[k].guid))
              /\ calls[k].ret[2].first_create_date
                   = DateOf(calls[k].guid).create_date

\* parse_file was called for an addon whose document marshals and that has
\* no dates record, while another addon has one; the call raised
C15_Witness ==
    /\ pc = "pf_done"
    /\ Fname(calls[1].guid) \in DOMAIN amo_cache
    /\ Marshals(Fname(calls[1].guid))
    /\ Fname(calls[1].guid) \notin DOMAIN amo_cache_dates
    /\ amo_cache_dates # EmptyDir
    /\ calls[1].ret = Raise("FileNotFoundError")

-----------------------------------------------------------------------------
(* marshal on its own: a caller marshals a document, then the result *)

\* most keys of a document handed to marshal
MaxFields == 2

\* a raw AMOAddonFile with a str id, an int platform, an undeclared key
\* and no status
FileDoc ==
    JDict([id |-> JStr("12"), platform |-> JInt(7),
           is_webextension |-> JInt(0), extra |-> JNull])

\* the values a key of a document may hold: scalars of every JSON kind,
\* lists, mappings (with and without null), nested documents
Values ==
    {JNull, JBool(TRUE), JInt(7), JFloat(15), JStr("12"), JStr("1.5"),
     JStr("ab"),
     JList(<<JStr("ab"), JInt(7)>>),
     JList(<<FileDoc>>),
     JDict([en |-> JStr("ab"), fr |-> JNull]),
     JDict([en |-> JFloat(15)]),
     JDict([en |-> JList(<<JStr("ab")>>)]),
     JDict([files |-> JList(<<FileDoc>>)])}

\* the keys a document for the schema may have: the declared ones and one
\* the schema does not declare
Fields(name) == Declared(name) \cup {"extra"}

\* the documents handed to marshal
RawDocs(name) ==
    {JDict(d) : d \in UNION {[K -> Values] :
                    K \in {K \in SUBSET Fields(name) :
                              Cardinality(K) <= MaxFields}}}

InitMarshal ==
    /\ pc = "m_call"
    /\ page_count = 0
    /\ amo_cache = EmptyDir
    /\ amo_cache_dates = EmptyDir
    /\ jobs = <<>>
    /\ inflight = {}
    /\ exited = 0
    /\ nthreads = 0
    /\ respq = <<>>
    /\ excq = <<>>
    /\ dispatched = <<>>
    /\ got = <<>>
    /\ first = <<>>
    /\ nreq = [u \in {} |-> 0]
    /\ server = "unknown"
    /\ putlog = <<>>
    /\ todo = <<>>
    /\ calls = <<>>
    /\ schema \in Schemas
    /\ raw \in RawDocs(schema)
    /\ out = <<>>

\* obj = marshal(schema, json_data)
MarshalCall ==
    /\ pc = "m_call"
    /\ out' = <<Marshal(schema, raw)>>
    /\ pc' = "m_returned"
    /\ UNCHANGED <<page_count, amo_cache, amo_cache_dates, poolvars, first,
                   nreq, server, putlog, todo, calls, schema, raw>>

\* marshal(schema, obj), on the record the first call returned
MarshalAgain ==
    /\ pc = "m_returned"
    /\ ~IsRaise(out[1])
    /\ out' = Append(out, Marshal(schema, out[1]))
    /\ pc' = "m_twice"
    /\ UNCHANGED <<page_count, amo_cache, amo_cache_dates, poolvars, first,
                   nreq, server, putlog, todo, calls, schema, raw>>

NextMarshal ==
    \/ MarshalCall
    \/ MarshalAgain

SpecMarshal == InitMarshal /\ [][NextMarshal]_vars

-----------------------------------------------------------------------------
(* C16 *)

\* marshal has returned a record for raw
Returned == pc \in {"m_returned", "m_twice"} /\ ~IsRaise(out[1])

RECURSIVE KeysExact(_, _, _), KeysExactIn(_, _, _)
\* the record obj has the keys of the schema that the document d has, and
\* so has every record nested in it
KeysExact(name, d, obj) ==
    /\ DOMAIN obj[2] = Declared(name) \cap DOMAIN d[2]
    /\ \A i \in DOMAIN Meta(name) :
          Meta(name)[i][1] \in DOMAIN d[2]
          => KeysExactIn(Meta(name)[i][2], d[2][Meta(name)[i][1]],
                         obj[2][Meta(name)[i][1]])

\* the same for the value fixed of type type_def made from value
KeysExactIn(type_def, value, fixed) ==
    CASE type_def[1] = "JSONSchema" -> KeysExact(type_def[2], value, fixed)
      [] type_def[1] = "List" ->
            /\ Len(fixed[2]) = Len(Iter(value)[2])
            /\ \A j \in DOMAIN fixed[2] :
                  KeysExactIn(type_def[2], Iter(value)[2][j], fixed[2][j])
      [] type_def[1] = "Dict" ->
            \/ fixed = JNull
            \/ /\ DOMAIN fixed[2] = DOMAIN value[2]
               /\ \A k \in DOMAIN value[2] :
                     KeysExactIn(type_def[3], value[2][k], fixed[2][k])
      [] OTHER -> TRUE

\* C16: the keys of the record marshal returns are the attr_names of the
\* schema that are keys of the document, no more and no fewer, and the
\* same holds for every record nested in it.
C16_KeysDeclaredAndPresent ==
    Returned => KeysExact(schema, raw, out[1])

\* an AMOAddonInfo document with an undeclared key and a current_version
\* whose file has an undeclared key and lacks declared ones was marshalled
C16_Witness ==
    /\ Returned
    /\ schema = "AMOAddonInfo"
    /\ DOMAIN raw[2] = {"extra", "current_version"}
    /\ raw[2].current_version = JDict([files |-> JList(<<FileDoc>>)])
    /\ DOMAIN out[1][2].current_version[2].files[2][1][2]
         = {"id", "platform", "is_webextension"}

-----------------------------------------------------------------------------
(* C17 *)

\* the attr_names the schema declares as typing.Dict
DictFields(name) ==
    {Meta(name)[i][1] : i \in {i \in DOMAIN Meta(name) :
                                   Meta(name)[i][2][1] = "Dict"}}

\* a key of the document other than a whose value fix_types raises on
RaisesBeside(name, d, a) ==
    \E i \in DOMAIN Meta(name) :
        /\ Meta(name)[i][1] # a
        /\ Meta(name)[i][1] \in DOMAIN d[2]
        /\ IsRaise(FixTypes(d[2][Meta(name)[i][1]], Meta(name)[i][1],
                            Meta(name)[i][2]))

\* C17: for an attr_name declared typing.Dict, marshal of a document that
\* holds null under it returns a record that holds null under it, marshal
\* of a document without it returns a record without it, and in neither
\* case does marshal raise unless another key of the document makes it.
C17_NullIsNotAbsent ==
    pc \in {"m_returned", "m_twice"} =>
        \A a \in DictFields(schema) :
            (a \notin DOMAIN raw[2] \/ raw[2][a] = JNull)
            => IF IsRaise(out[1]) THEN RaisesBeside(schema, raw, a)
               ELSE IF a \in DOMAIN raw[2]
               THEN a \in DOMAIN out[1][2] /\ out[1][2][a] = JNull
               ELSE a \notin DOMAIN out[1][2]

\* a document with null under name and without description was marshalled
C17_Witness ==
    /\ Returned
    /\ schema = "AMOAddonInfo"
    /\ DOMAIN raw[2] = {"name", "guid"}
    /\ raw[2].name = JNull
    /\ out[1][2].name = JNull
    /\ "description" \notin DOMAIN out[1][2]

-----------------------------------------------------------------------------
(* C18 *)

\* C18: for a document whose keys the schema declares and on which marshal
\* returns a record, marshal of that record returns an equal record.
C18_Idempotent ==
    (pc = "m_twice" /\ DOMAIN raw[2] \subseteq Declared(schema))
    => out[2] = out[1]

\* a document with a nested schema, a sequence, a mapping and a null
\* mapping value, which marshal changed, was marshalled twice
C18_Witness ==
    /\ pc = "m_twice"
    /\ schema = "AMOAddonInfo"
    /\ DOMAIN raw[2] = {"current_version", "description"}
    /\ raw[2].current_version = JDict([files |-> JList(<<FileDoc>>)])
    /\ raw[2].description = JDict([en |-> JStr("ab"), fr |-> JNull])
    /\ out[1] # raw

-----------------------------------------------------------------------------
(* C11 *)

\* the guid of the addon whose document is in file f of the addon store
StoredGuid(f) == JsonLoads(amo_cache[f]).guid

\* C11: when fetch_versions has returned, for every guid of the addon store
\* whose version listing and last page were both answered by a well-formed
\* 200, the dates store holds under that guid the record of that guid and
\* of the created timestamp the registry gives on the last page of that
\* guid's listing.
C11_DatesHoldLastPage ==
    pc = "fv_done" =>
        \A f \in DOMAIN amo_cache :
            \A j \in DOMAIN dispatched :
                (/\ dispatched[j].path = RequoteUri(FnameGuid(f))
                 /\ WellFormed(got[j]))
                => /\ Fname(StoredGuid(f)) \in DOMAIN amo_cache_dates
                   /\ JsonLoads(amo_cache_dates[Fname(StoredGuid(f))])
                        = [guid |-> StoredGuid(f),
                           create_date |->
                               Created(RequoteUri(StoredGuid(f)),
                                       dispatched[j].page)]

-----------------------------------------------------------------------------
(* C12 *)

\* the guid _handle_last_version_responses files job j's record under
JobGuid(j) == Unquote(PreparedUrl(dispatched[j]).path)

\* C12: fetch_versions requests no version-listing URL and no last-page
\* URL more than once, a last-page URL is dispatched only for a listing
\* response that was a 200 with a page_count, and when fetch_versions
\* returns no guid whose last-page request did not succeed (or was never
\* dispatched) has an entry in the dates store.
C12_NoRetryRound ==
    [][ /\ \A u \in DOMAIN nreq' : u.kind = "versions" => nreq'[u] <= 1
        /\ (pc = "fv_handle1" /\ pc' = "fv_join2")
           => \A j \in DOMAIN dispatched' :
                 \E k \in DOMAIN respq :
                     /\ respq[k].status_code = 200
                     /\ ~Malformed(respq[k], "page_count")
                     /\ dispatched'[j]
                          = LastPageUrl(respq[k].url,
                                        respq[k].content.json.page_count)
        /\ (pc = "fv_handle2" /\ pc' = "fv_done")
           => \A f \in DOMAIN amo_cache_dates' :
                 /\ \E j \in DOMAIN got : f = Fname(JobGuid(j))
                 /\ \A j \in DOMAIN got :
                       f = Fname(JobGuid(j)) => WellFormed(got[j]) ]_vars

-----------------------------------------------------------------------------
(* C19 *)

\* the files the handler at work writes for one response, each with the
\* document it leaves in it
PutsOf(resp) ==
    IF pc \in {"fp_handle1", "fp_handle2"}
    THEN HandleResponse(EmptyDir, resp).db
    ELSE HandleLastVersionResponse(EmptyDir, resp).db

\* the last response, in the order the handler iterates, that writes f
LastPut(f) ==
    CHOOSE k \in DOMAIN respq :
        /\ f \in DOMAIN PutsOf(respq[k])
        /\ \A l \in DOMAIN respq : l > k => f \notin DOMAIN PutsOf(respq[l])

-----------------------------------------------------------------------------
(* C20 *)

\* the step is one of fetch_versions: its first, or one while it runs
InFetchVersions ==
    \/ pc = "idle" /\ pc' = "fv_join1"
    \/ pc \in {"fv_join1", "fv_handle1", "fv_join2", "fv_handle2"}

\* C20: no step of fetch_versions, whatever its requests were answered,
\* changes the addon store, so the store is after the call what it was
\* before; the first step leaves the dates store empty.
C20_AddonStoreUntouched ==
    [][ InFetchVersions
        => /\ amo_cache' = amo_cache
           /\ pc = "idle" => amo_cache_dates' = EmptyDir ]_vars

\* fetch_versions has returned from an addon store of two files, with
\* the date of one of the two addons written
C20_Witness ==
    /\ pc = "fv_done"
    /\ amo_cache = PriorAddons(2)
    /\ Fname(G(2)) \in DOMAIN amo_cache_dates
    /\ Fname(G(1)) \notin DOMAIN amo_cache_dates

=============================================================================
